---- MODULE Spec2Model ----
(***************************************************************************)
(* Model of common/serialize_series.go: the conversion of an API series    *)
(* (name, columns, rows) into a protocol.Series and the two serializers    *)
(* that turn a map of protocol.Series back into API series, as a value     *)
(* tree (SerializeSeries) or as hand-written JSON (SerializeSeriesJson).   *)
(*                                                                         *)
(* Numbers are kept in tenths: a json.Number or a float64 with value v is  *)
(* the integer 10*v, so 2.5 is 25.  Go's int64(f) and Go's integer "/"     *)
(* both truncate toward zero; TLA+'s \div floors, hence GoDiv.             *)
(***************************************************************************)
EXTENDS Integers, Sequences, FiniteSets, TLC

VARIABLES pc, precision, api, api0, ret, ret0, memSeries, numberOfSeries,
          serialized, json

vars == <<pc, precision, api, api0, ret, ret0, memSeries, numberOfSeries,
          serialized, json>>

(***************************************************************************)
(* Bounds of the model.                                                    *)
(***************************************************************************)
MaxCols == 3
MaxRows == 2
MaxSeries == 3
MaxPoints == 2

(***************************************************************************)
(* TimePrecision                                                           *)
(***************************************************************************)
MicrosecondPrecision == 0
MillisecondPrecision == 1
SecondPrecision == 2

Precisions == {MicrosecondPrecision, MillisecondPrecision, SecondPrecision}

(***************************************************************************)
(* Go arithmetic.                                                          *)
(***************************************************************************)
GoDiv(a, b) == IF a >= 0 THEN a \div b ELSE -((-a) \div b)

\* int64(f) / uint64(f) of a float64 held in tenths (f >= 0 for uint64)
FloatToInt(tenths) == GoDiv(tenths, 10)

(***************************************************************************)
(* Values of an API row: interface{} holding a string, a json.Number, a    *)
(* bool, nil, or some other dynamic type.  A json.Number is a string; lit  *)
(* says what its text is: "int" (an integer literal: Int64() and Float64() *)
(* succeed), "dec" (a decimal literal: only Float64() succeeds) or "bad"   *)
(* (out of range or no number: both fail).  n is the value in tenths.      *)
(* int64, uint64 and float64 are the native numbers SerializeSeries puts   *)
(* in its rows.                                                            *)
(***************************************************************************)
AString(s)  == [k |-> "string",  s |-> s,  lit |-> "",    n |-> 0, b |-> FALSE]
ANumber(l, t) == [k |-> "number", s |-> "", lit |-> l,    n |-> t, b |-> FALSE]
ABool(b)    == [k |-> "bool",    s |-> "", lit |-> "",    n |-> 0, b |-> b]
ANil        == [k |-> "nil",     s |-> "", lit |-> "",    n |-> 0, b |-> FALSE]
AInt64(i)   == [k |-> "int64",   s |-> "", lit |-> "",    n |-> i, b |-> FALSE]
AUint64(i)  == [k |-> "uint64",  s |-> "", lit |-> "",    n |-> i, b |-> FALSE]
AFloat64(t) == [k |-> "float64", s |-> "", lit |-> "",    n |-> t, b |-> FALSE]
AOther      == [k |-> "other",   s |-> "", lit |-> "",    n |-> 0, b |-> FALSE]

\* json.Number.Float64(): the error, and the value in tenths
NumberFloat64Fails(x) == x.lit = "bad"
\* json.Number.Int64(): strconv.ParseInt of the text
NumberInt64Fails(x) == x.lit # "int"
NumberInt64(x) == GoDiv(x.n, 10)

(***************************************************************************)
(* protocol.FieldValue, protocol.Point, protocol.Series                    *)
(***************************************************************************)
\* optional scalars (*int64, *uint64)
None == [has |-> FALSE, v |-> 0]
Some(v) == [has |-> TRUE, v |-> v]

\* k names the one pointer of the FieldValue that is set; "nilptr" is a nil
\* *FieldValue.  A double is finite (fin) with value n tenths, or NaN / +-Inf.
FieldValue(k, s, n, b, fin) == [k |-> k, s |-> s, n |-> n, b |-> b, fin |-> fin]
StringValue(s) == FieldValue("string", s, 0, FALSE, TRUE)
Int64Value(i)  == FieldValue("int64", "", i, FALSE, TRUE)
DoubleValue(t) == FieldValue("double", "", t, FALSE, TRUE)
NonFinite      == FieldValue("double", "", 0, FALSE, FALSE)
BoolValue(b)   == FieldValue("bool", "", 0, b, TRUE)
IsNull         == FieldValue("isnull", "", 0, TRUE, TRUE)
NilValue       == FieldValue("nilptr", "", 0, FALSE, TRUE)

Point(values, timestamp, sequence) ==
    [Values |-> values, Timestamp |-> timestamp, SequenceNumber |-> sequence]

Series(name, fields, points) ==
    [isnil |-> FALSE, Name |-> name, Fields |-> fields, Points |-> points]

\* the nil *protocol.Series of an error return
NilSeries == [isnil |-> TRUE, Name |-> "", Fields |-> <<>>, Points |-> <<>>]

(***************************************************************************)
(* removeField, removeTimestampFieldDefinition                             *)
(***************************************************************************)
\* the loop of removeField: the first index holding name, 0 for Go's -1
IndexOf(fields, name) ==
    IF \E i \in 1..Len(fields) : fields[i] = name
    THEN CHOOSE i \in 1..Len(fields) :
            /\ fields[i] = name
            /\ \A j \in 1..(i - 1) : fields[j] # name
    ELSE 0

\* removeField filling the hole with the last element
removeField_swapLast(fields, name) ==
    LET index == IndexOf(fields, name)
    IN  IF index = 0 THEN fields
        ELSE IF index = Len(fields) THEN SubSeq(fields, 1, index - 1)
        ELSE SubSeq(fields, 1, index - 1) \o <<fields[Len(fields)]>>
             \o SubSeq(fields, index + 1, Len(fields) - 1)

\* the slice removeField returns
removeField(fields, name) ==
    LET index == IndexOf(fields, name)
    IN  IF index = 0 THEN fields
        ELSE SubSeq(fields, 1, index - 1) \o SubSeq(fields, index + 1, Len(fields))

\* append(fields[:index], fields[index+1:]...) has room in fields' own array
\* and writes there: what the elements 1..Len(fields) of that array hold
\* after removeField
removeFieldArray(fields, name) ==
    LET index == IndexOf(fields, name)
    IN  IF index = 0 THEN fields
        ELSE removeField(fields, name) \o <<fields[Len(fields)]>>

removeTimestampFieldDefinition(fields) ==
    removeField(removeField(fields, "time"), "sequence_number")

\* the array under fields after removeTimestampFieldDefinition
removeTimestampFieldDefinitionArray(fields) ==
    LET a1 == removeFieldArray(fields, "time")
        f1 == removeField(fields, "time")
    IN  removeFieldArray(f1, "sequence_number") \o SubSeq(a1, Len(f1) + 1, Len(a1))

(***************************************************************************)
(* ApiSeries                                                               *)
(***************************************************************************)
ApiSeries(name, columns, points) ==
    [Name |-> name, Columns |-> columns, Points |-> points]

\* the getters hand out the series' own slices
GetName(s) == s.Name
GetColumns(s) == s.Columns
GetPoints(s) == s.Points

\* hasDuplicates looking only at neighbours
hasDuplicates_adjacent(ss) ==
    \E i \in 1..(Len(ss) - 1) : ss[i] = ss[i + 1]

hasDuplicates(ss) ==
    \E i, j \in 1..Len(ss) : i < j /\ ss[i] = ss[j]

(***************************************************************************)
(* ConvertToDataStoreSeries                                                *)
(***************************************************************************)
ErrDuplicate == "Cannot have duplicate field names"
ErrPayload   == "invalid payload"
ErrTime      == "time field must be float"
ErrSequence  == "sequence_number field must be float"
ErrNumber    == "strconv: value out of range or invalid syntax"
ErrUnknown   == "Unknown type"

\* ScaleUp with the fallthrough left out
ScaleUp_noFallthrough(t, p) ==
    IF p = SecondPrecision THEN t * 1000
    ELSE IF p = MillisecondPrecision THEN t * 1000
    ELSE t

\* the switch on precision with its fallthrough
ScaleUp(t, p) ==
    IF p = SecondPrecision THEN (t * 1000) * 1000
    ELSE IF p = MillisecondPrecision THEN t * 1000
    ELSE t

\* One pass of the loop over the columns: acc is the state of the row's
\* locals (values, timestamp, sequence) and the error returned, if any.
ConvertCell(acc, field, value, p) ==
    IF field = "time" THEN
        IF value.k # "number" THEN [acc EXCEPT !.err = ErrTime]
        ELSE IF NumberFloat64Fails(value) THEN [acc EXCEPT !.err = ErrNumber]
        ELSE [acc EXCEPT !.timestamp = Some(ScaleUp(FloatToInt(value.n), p))]
    ELSE IF field = "sequence_number" THEN
        IF value.k # "number" THEN [acc EXCEPT !.err = ErrSequence]
        ELSE IF NumberFloat64Fails(value) THEN [acc EXCEPT !.err = ErrNumber]
        ELSE [acc EXCEPT !.sequence = Some(FloatToInt(value.n))]
    ELSE IF value.k = "string" THEN
        [acc EXCEPT !.values = Append(@, StringValue(value.s))]
    ELSE IF value.k = "number" THEN
        IF ~NumberInt64Fails(value)
        THEN [acc EXCEPT !.values = Append(@, Int64Value(NumberInt64(value)))]
        ELSE IF NumberFloat64Fails(value) THEN [acc EXCEPT !.err = ErrNumber]
        ELSE [acc EXCEPT !.values = Append(@, DoubleValue(value.n))]
    ELSE IF value.k = "bool" THEN
        [acc EXCEPT !.values = Append(@, BoolValue(value.b))]
    ELSE IF value.k = "nil" THEN
        [acc EXCEPT !.values = Append(@, IsNull)]
    ELSE [acc EXCEPT !.err = ErrUnknown]

RECURSIVE ConvertCells(_, _, _, _, _)
ConvertCells(acc, columns, point, idx, p) ==
    IF idx > Len(columns) \/ acc.err # "" THEN acc
    ELSE ConvertCells(ConvertCell(acc, columns[idx], point[idx], p),
                      columns, point, idx + 1, p)

\* ConvertPoint rejecting only the rows that are too short
ConvertPoint_shortOnly(columns, point, p) ==
    IF Len(point) < Len(columns)
    THEN [err |-> ErrPayload, values |-> <<>>, timestamp |-> None, sequence |-> None]
    ELSE ConvertCells([err |-> "", values |-> <<>>, timestamp |-> None,
                       sequence |-> None], columns, point, 1, p)

\* the body of the loop over the rows: the error, or the point appended
ConvertPoint(columns, point, p) ==
    IF Len(point) # Len(columns)
    THEN [err |-> ErrPayload, values |-> <<>>, timestamp |-> None, sequence |-> None]
    ELSE ConvertCells([err |-> "", values |-> <<>>, timestamp |-> None,
                       sequence |-> None], columns, point, 1, p)

RECURSIVE ConvertPoints(_, _, _, _, _)
ConvertPoints(points, columns, rows, i, p) ==
    IF i > Len(rows) THEN [err |-> "", points |-> points]
    ELSE LET r == ConvertPoint(columns, rows[i], p)
         IN  IF r.err # "" THEN [err |-> r.err, points |-> points]
             ELSE ConvertPoints(Append(points, Point(r.values, r.timestamp, r.sequence)),
                                columns, rows, i + 1, p)

\* what the call returns: (series, err)
ConvertToDataStoreSeries(s, p) ==
    IF hasDuplicates(GetColumns(s))
    THEN [series |-> NilSeries, err |-> ErrDuplicate]
    ELSE LET r == ConvertPoints(<<>>, GetColumns(s), GetPoints(s), 1, p)
         IN  IF r.err # "" THEN [series |-> NilSeries, err |-> r.err]
             ELSE [series |-> Series(GetName(s),
                                     removeTimestampFieldDefinition(GetColumns(s)),
                                     r.points),
                   err |-> ""]

\* the series the caller holds after the call: removeTimestampFieldDefinition
\* is reached only on success, and writes into the array of s.Columns
ApiSeriesAfterConvert(s, p) ==
    IF ConvertToDataStoreSeries(s, p).err # "" THEN s
    ELSE [s EXCEPT !.Columns = removeTimestampFieldDefinitionArray(GetColumns(s))]

(***************************************************************************)
(* protocol getters used by the serializers                                *)
(***************************************************************************)
\* FieldValue.GetValue(): the scalar held and ok; ok is false for a double
\* that is NaN or infinite; a FieldValue holding nothing, or only IsNull,
\* gives (nil, true)
GetValue(value) ==
    CASE value.k = "string" -> [v |-> AString(value.s), ok |-> TRUE]
      [] value.k = "double" ->
            IF value.fin THEN [v |-> AFloat64(value.n), ok |-> TRUE]
            ELSE [v |-> AInt64(0), ok |-> FALSE]
      [] value.k = "int64" -> [v |-> AInt64(value.n), ok |-> TRUE]
      [] value.k = "bool" -> [v |-> ABool(value.b), ok |-> TRUE]
      [] OTHER -> [v |-> ANil, ok |-> TRUE]

GetTimestampInMicroseconds(row) == row.Timestamp.v
GetSequenceNumber(row) == row.SequenceNumber.v

(***************************************************************************)
(* What both serializers compute the same way                              *)
(***************************************************************************)
\* includeSequenceNumber decided from the last point
IncludeSequenceNumber_lastPoint(series) ==
    ~(Len(series.Points) > 0 /\ ~series.Points[Len(series.Points)].SequenceNumber.has)

\* includeSequenceNumber
IncludeSequenceNumber(series) ==
    ~(Len(series.Points) > 0 /\ ~series.Points[1].SequenceNumber.has)

\* the switch on precision with its fallthrough
ScaleDown(t, p) ==
    IF p = SecondPrecision THEN GoDiv(GoDiv(t, 1000), 1000)
    ELSE IF p = MillisecondPrecision THEN GoDiv(t, 1000)
    ELSE t

RowTimestamp(row, p) ==
    IF row.Timestamp.has THEN ScaleDown(GetTimestampInMicroseconds(row), p) ELSE 0

RowSequence(row) ==
    IF row.SequenceNumber.has THEN GetSequenceNumber(row) ELSE 0

(***************************************************************************)
(* SerializeSeries                                                         *)
(***************************************************************************)
\* the loop over row.Values: acc is rowValues and the warnings logged
RECURSIVE SerializeValues(_, _, _)
SerializeValues(acc, values, i) ==
    IF i > Len(values) THEN acc
    ELSE LET value == values[i]
             g == GetValue(value)
         IN  IF value.k = "nilptr"
             THEN SerializeValues([acc EXCEPT !.row = Append(@, ANil)], values, i + 1)
             ELSE IF ~g.ok
             THEN SerializeValues([row |-> Append(acc.row, ANil),
                                   warns |-> acc.warns + 1], values, i + 1)
             ELSE SerializeValues([acc EXCEPT !.row = Append(@, g.v)], values, i + 1)

SerializeRow(row, include, p) ==
    SerializeValues(
        [row |-> <<AInt64(RowTimestamp(row, p))>>
                 \o (IF include THEN <<AUint64(RowSequence(row))>> ELSE <<>>),
         warns |-> 0],
        row.Values, 1)

\* columns that name sequence_number whatever the first point holds
SerializeColumns_always(series) ==
    <<"time", "sequence_number">> \o series.Fields

SerializeColumns(series) ==
    <<"time">>
    \o (IF IncludeSequenceNumber(series) THEN <<"sequence_number">> ELSE <<>>)
    \o series.Fields

\* the body of the loop over memSeries: the SerializedSeries appended
SerializeOne(series, p) ==
    LET include == IncludeSequenceNumber(series)
        rows == [i \in 1..Len(series.Points) |-> SerializeRow(series.Points[i], include, p)]
    IN  [Name |-> series.Name,
         Columns |-> SerializeColumns(series),
         Points |-> [i \in 1..Len(rows) |-> rows[i].row]]

SumTo(f, n) ==
    LET RECURSIVE Sum(_)
        Sum(i) == IF i = 0 THEN 0 ELSE f[i] + Sum(i - 1)
    IN  Sum(n)

SerializeWarns(series, p) ==
    LET include == IncludeSequenceNumber(series)
    IN  SumTo([i \in 1..Len(series.Points) |->
                  SerializeRow(series.Points[i], include, p).warns],
              Len(series.Points))

\* keys is the order in which range yields the map's keys
SerializeSeries(mem, p, keys) ==
    [series |-> [i \in 1..Len(keys) |-> SerializeOne(mem[keys[i]], p)],
     warns |-> SumTo([i \in 1..Len(keys) |-> SerializeWarns(mem[keys[i]], p)],
                     Len(keys))]

(***************************************************************************)
(* SerializeSeriesJson.  The buffer is the sequence of the strings written *)
(* to it, one element per WriteString.                                     *)
(***************************************************************************)
Abs(i) == IF i < 0 THEN -i ELSE i

\* strconv.FormatInt(i, 10), strconv.FormatUint(i, 10)
FormatInt(i) == ToString(i)

\* strconv.FormatFloat(f, 'f', 6, 64) of a float held in tenths
FormatFloat(t) ==
    (IF t < 0 THEN "-" ELSE "") \o ToString(Abs(t) \div 10) \o "."
        \o ToString(Abs(t) % 10) \o "00000"

\* what is written for one value after the ","
JsonValue(value) ==
    IF value.k = "nilptr" THEN <<"null">>
    ELSE IF ~GetValue(value).ok THEN <<"null">>
    ELSE IF value.k = "string" THEN <<"\"", value.s, "\"">>
    ELSE IF value.k = "double" THEN <<FormatFloat(value.n)>>
    ELSE IF value.k = "int64" THEN <<FormatInt(value.n)>>
    ELSE <<"null">>

\* a warning for a nil value too
JsonWarns_nilToo(value) ==
    IF value.k = "nilptr" \/ ~GetValue(value).ok THEN 1 ELSE 0

JsonWarns(value) ==
    IF value.k # "nilptr" /\ ~GetValue(value).ok THEN 1 ELSE 0

RECURSIVE JsonValues(_, _)
JsonValues(values, i) ==
    IF i > Len(values) THEN <<>>
    ELSE <<",">> \o JsonValue(values[i]) \o JsonValues(values, i + 1)

JsonRow(row, include, p) ==
    <<"[", FormatInt(RowTimestamp(row, p))>>
    \o (IF include THEN <<",", FormatInt(RowSequence(row))>> ELSE <<>>)
    \o JsonValues(row.Values, 1)
    \o <<"]">>

RECURSIVE JsonRows(_, _, _, _)
JsonRows(points, include, p, i) ==
    IF i > Len(points) THEN <<>>
    ELSE (IF i > 1 THEN <<",">> ELSE <<>>)
         \o JsonRow(points[i], include, p)
         \o JsonRows(points, include, p, i + 1)

RECURSIVE JsonFields(_, _)
JsonFields(fields, i) ==
    IF i > Len(fields) THEN <<>>
    ELSE <<",\"", fields[i], "\"">> \o JsonFields(fields, i + 1)

\* one series object, from {"name":" to ]}
JsonSeries(series, p) ==
    <<"{\"name\":\"", series.Name, "\",\"columns\":[", "\"time\"">>
    \o (IF IncludeSequenceNumber(series) THEN <<",\"sequence_number\"">> ELSE <<>>)
    \o JsonFields(series.Fields, 1)
    \o <<"],\"points\":[">>
    \o JsonRows(series.Points, IncludeSequenceNumber(series), p, 1)
    \o <<"]}">>

JsonSeriesWarns(series) ==
    SumTo([i \in 1..Len(series.Points) |->
              SumTo([j \in 1..Len(series.Points[i].Values) |->
                        JsonWarns(series.Points[i].Values[j])],
                    Len(series.Points[i].Values))],
          Len(series.Points))

\* the loop left once cnt reaches numberOfSeries
RECURSIVE JsonLoop_exactCap(_, _, _, _, _, _)
JsonLoop_exactCap(acc, mem, p, n, keys, i) ==
    IF i > Len(keys) THEN acc
    ELSE LET cnt == i
             series == mem[keys[i]]
             next == [buf |-> acc.buf
                              \o (IF i > 1 THEN <<",">> ELSE <<>>)
                              \o JsonSeries(series, p),
                      warns |-> acc.warns + JsonSeriesWarns(series)]
         IN  IF n > 0 /\ cnt >= n THEN next
             ELSE JsonLoop_exactCap(next, mem, p, n, keys, i + 1)

\* the loop over memSeries: i is the position in the iteration, cnt the
\* counter before this pass; the loop is left after the pass that makes
\* cnt exceed numberOfSeries
RECURSIVE JsonLoop(_, _, _, _, _, _)
JsonLoop(acc, mem, p, n, keys, i) ==
    IF i > Len(keys) THEN acc
    ELSE LET cnt == i
             series == mem[keys[i]]
             next == [buf |-> acc.buf
                              \o (IF i > 1 THEN <<",">> ELSE <<>>)
                              \o JsonSeries(series, p),
                      warns |-> acc.warns + JsonSeriesWarns(series)]
         IN  IF n > 0 /\ cnt > n THEN next
             ELSE JsonLoop(next, mem, p, n, keys, i + 1)

SerializeSeriesJson(mem, p, n, keys) ==
    LET r == JsonLoop([buf |-> IF n # 1 THEN <<"[">> ELSE <<>>, warns |-> 0],
                      mem, p, n, keys, 1)
    IN  [buf |-> r.buf \o (IF n # 1 THEN <<"]">> ELSE <<>>), warns |-> r.warns]

(***************************************************************************)
(* The payloads the API layer hands to ConvertToDataStoreSeries.           *)
(***************************************************************************)
ColumnNames == {"time", "sequence_number", "a", "b"}


\* the values a client puts under a column: numbers with and without a
\* fraction, and values of each other dynamic type
CellValues(name) ==
    CASE name = "time" ->
            {ANumber("int", 10000), ANumber("dec", -25), AString("x")}
      [] name = "sequence_number" ->
            {ANumber("int", 50), ANumber("dec", 25), AString("x")}
      [] name = "a" ->
            {AString("x"), ANumber("int", 70), ANumber("dec", 25)}
      [] OTHER ->
            {ABool(TRUE), ANil, AOther, ANumber("bad", 0)}

AllCellValues == UNION {CellValues(c) : c \in ColumnNames}

\* rows aligned with the columns
AlignedRows(cols) ==
    {r \in [1..Len(cols) -> AllCellValues] :
        \A i \in 1..Len(cols) : r[i] \in CellValues(cols[i])}

\* the rows of a payload: aligned rows, aligned rows cut one value short,
\* and a row one value long
RowsFor(cols) ==
    AlignedRows(cols)
    \cup {SubSeq(r, 1, Len(r) - 1) : r \in AlignedRows(cols)}
    \cup {[i \in 1..(Len(cols) + 1) |-> ANil]}

(***************************************************************************)
(* State: the series the caller holds (api) and held before the first call *)
(* (api0), what the last call returned (ret) and the call before it        *)
(* (ret0), the map given to the serializers and what they returned.        *)
(***************************************************************************)
NoApi == ApiSeries("", <<>>, <<>>)
NoRet == [series |-> NilSeries, err |-> ""]
NoMap == <<>>
NoSerialized == [series |-> <<>>, warns |-> 0]
NoJson == [buf |-> <<>>, warns |-> 0]

EgressIdle ==
    /\ memSeries = NoMap /\ numberOfSeries = 0
    /\ serialized = NoSerialized /\ json = NoJson

InitIngest ==
    /\ pc = "start"
    /\ precision = MicrosecondPrecision
    /\ api = NoApi /\ api0 = NoApi
    /\ ret = NoRet /\ ret0 = NoRet
    /\ EgressIdle

\* a request: the decoded series s is converted at precision p
Convert(s, p) ==
    /\ pc = "start"
    /\ pc' = "converted"
    /\ precision' = p
    /\ api0' = s
    /\ api' = ApiSeriesAfterConvert(s, p)
    /\ ret' = ConvertToDataStoreSeries(s, p)
    /\ ret0' = ret
    /\ UNCHANGED <<memSeries, numberOfSeries, serialized, json>>

\* the caller converts the series it still holds once more
ConvertAgain ==
    /\ pc = "converted"
    /\ pc' = "reconverted"
    /\ api' = ApiSeriesAfterConvert(api, precision)
    /\ ret' = ConvertToDataStoreSeries(api, precision)
    /\ ret0' = ret
    /\ UNCHANGED <<precision, api0, memSeries, numberOfSeries, serialized, json>>

NextIngest ==
    \/ /\ pc = "start"
       /\ \E n \in 0..MaxCols, m \in 0..MaxRows, p \in Precisions :
             \E cols \in [1..n -> ColumnNames] :
                \E rows \in [1..m -> RowsFor(cols)] :
                   Convert(ApiSeries("s", cols, rows), p)
    \/ ConvertAgain

SpecIngest == InitIngest /\ [][NextIngest]_vars

(***************************************************************************)
(* The maps the storage layer hands to the serializers: up to MaxSeries    *)
(* series holding up to MaxPoints points between them.                     *)
(***************************************************************************)
Timestamps == {None, Some(-1500), Some(1999), Some(2000500)}
SequenceNumbers == {None, Some(5)}

FieldValues ==
    {StringValue("x"), Int64Value(7), DoubleValue(25), NonFinite,
     BoolValue(TRUE), IsNull, NilValue}

\* points with each timestamp and sequence number, points with each kind
\* of value, and points with no value and with two values
PointSet ==
    {Point(<<StringValue("x")>>, ts, sq) : ts \in Timestamps, sq \in SequenceNumbers}
    \cup {Point(<<v>>, Some(2000500), Some(5)) : v \in FieldValues}
    \cup {Point(<<>>, Some(2000500), None),
          Point(<<Int64Value(7), NonFinite>>, Some(-1500), None)}

\* a series is built with as many fields as its first point has values
FieldsFor(points) ==
    IF points = <<>> THEN <<"a">>
    ELSE SubSeq(<<"b", "a">>, 1, Len(points[1].Values))

SeriesName(i) == "s" \o ToString(i)

\* all[j] belongs to series owner[j]
PointsOf(all, owner, i) ==
    LET idx == {j \in 1..Len(all) : owner[j] = i}
    IN  IF idx = {} THEN <<>>
        ELSE SubSeq(all, CHOOSE j \in idx : \A h \in idx : j <= h,
                         CHOOSE j \in idx : \A h \in idx : j >= h)

MapOf(m, all, owner) ==
    [name \in {SeriesName(i) : i \in 1..m} |->
        LET i == CHOOSE i \in 1..m : SeriesName(i) = name
            points == PointsOf(all, owner, i)
        IN  Series(name, FieldsFor(points), points)]

IngestIdle ==
    /\ api = NoApi /\ api0 = NoApi
    /\ ret = NoRet /\ ret0 = NoRet

InitEgress ==
    /\ pc = "ready"
    /\ precision \in Precisions
    /\ \E m \in 0..MaxSeries, k \in 0..MaxPoints :
          \E all \in [1..k -> PointSet], owner \in [1..k -> 1..m] :
             /\ \A j \in 1..(k - 1) : owner[j] <= owner[j + 1]
             /\ memSeries = MapOf(m, all, owner)
    /\ numberOfSeries = 0
    /\ serialized = NoSerialized /\ json = NoJson
    /\ IngestIdle

\* the orders in which range may yield the keys of the map
KeyOrders(mem) ==
    {keys \in [1..Cardinality(DOMAIN mem) -> DOMAIN mem] :
        \A i, j \in DOMAIN keys : i # j => keys[i] # keys[j]}

\* a query answered through the value tree
Serialize(keys) ==
    /\ pc = "ready"
    /\ pc' = "serialized"
    /\ serialized' = SerializeSeries(memSeries, precision, keys)
    /\ UNCHANGED <<precision, api, api0, ret, ret0, memSeries, numberOfSeries, json>>

\* a query answered through the byte writer, with cap n
SerializeJson(keys, n) ==
    /\ pc = "ready"
    /\ pc' = "json"
    /\ numberOfSeries' = n
    /\ json' = SerializeSeriesJson(memSeries, precision, n, keys)
    /\ UNCHANGED <<precision, api, api0, ret, ret0, memSeries, serialized>>

NextEgress ==
    \/ \E keys \in KeyOrders(memSeries) : Serialize(keys)
    \/ \E keys \in KeyOrders(memSeries), n \in 0..MaxSeries : SerializeJson(keys, n)

SpecEgress == InitEgress /\ [][NextEgress]_vars

(***************************************************************************)
(* The round trip of a stored series: SerializeSeries, then the series it  *)
(* returned handed to ConvertToDataStoreSeries, as it is or after the HTTP *)
(* layer has encoded it as JSON and decoded it with numbers kept as        *)
(* json.Number.                                                            *)
(***************************************************************************)
\* encoding/json: an integer is written without a fraction and so is a float
\* that has none; the decoder returns the text as a json.Number
WireValue(v) ==
    CASE v.k \in {"int64", "uint64"} -> ANumber("int", v.n * 10)
      [] v.k = "float64" ->
            IF v.n % 10 = 0 THEN ANumber("int", v.n) ELSE ANumber("dec", v.n)
      [] OTHER -> v

Wire(s) ==
    ApiSeries(s.Name, s.Columns,
              [r \in 1..Len(s.Points) |->
                  [j \in 1..Len(s.Points[r]) |-> WireValue(s.Points[r][j])]])

\* well-formed points for a field list: a value per field, none of them
\* null, absent or non-finite
RoundValues(fields) ==
    IF Len(fields) = 1
    THEN {<<StringValue("x")>>, <<Int64Value(7)>>, <<DoubleValue(25)>>, <<BoolValue(TRUE)>>}
    ELSE {<<Int64Value(7), StringValue("x")>>, <<DoubleValue(30), BoolValue(TRUE)>>}

RoundFields == {<<"a">>, <<"b", "a">>}

InitRound ==
    /\ pc = "ready"
    /\ precision \in Precisions
    /\ \E fields \in RoundFields, k \in 0..MaxPoints :
          \E points \in [1..k -> {Point(v, ts, sq) : v \in RoundValues(fields),
                                                    ts \in Timestamps,
                                                    sq \in SequenceNumbers}] :
             memSeries = [name \in {"s1"} |-> Series(name, fields, points)]
    /\ numberOfSeries = 0
    /\ serialized = NoSerialized /\ json = NoJson
    /\ IngestIdle

\* series i of the value tree is converted as it is
ConvertSerialized(i) ==
    /\ pc = "serialized"
    /\ pc' = "direct"
    /\ api0' = serialized.series[i]
    /\ api' = ApiSeriesAfterConvert(serialized.series[i], precision)
    /\ ret' = ConvertToDataStoreSeries(serialized.series[i], precision)
    /\ ret0' = ret
    /\ UNCHANGED <<precision, memSeries, numberOfSeries, serialized, json>>

\* series i of the value tree goes out as JSON and comes back in a write
Reingest(i) ==
    /\ pc = "serialized"
    /\ pc' = "reingested"
    /\ api0' = Wire(serialized.series[i])
    /\ api' = ApiSeriesAfterConvert(Wire(serialized.series[i]), precision)
    /\ ret' = ConvertToDataStoreSeries(Wire(serialized.series[i]), precision)
    /\ ret0' = ret
    /\ UNCHANGED <<precision, memSeries, numberOfSeries, serialized, json>>

NextRound ==
    \/ \E keys \in KeyOrders(memSeries) : Serialize(keys)
    \/ \E i \in 1..Len(serialized.series) : ConvertSerialized(i)
    \/ \E i \in 1..Len(serialized.series) : Reingest(i)

SpecRound == InitRound /\ [][NextRound]_vars

(***************************************************************************)
(* Properties of ConvertToDataStoreSeries (SpecIngest).  In a state with   *)
(* pc = "converted", api0 is the series passed to the call, precision the  *)
(* precision passed, ret the return and api the series after the call.     *)
(***************************************************************************)
Reserved == {"time", "sequence_number"}

Range(f) == {f[i] : i \in DOMAIN f}

NamedTwice(cols) == Cardinality(Range(cols)) < Len(cols)

WrongLength(s, i) == Len(s.Points[i]) # Len(s.Columns)

\* row i holds a value the conversion rejects: a reserved column that is
\* no number, a number that does not parse, a value of an unmapped type
BadValue(s, i) ==
    /\ ~WrongLength(s, i)
    /\ \E j \in 1..Len(s.Columns) :
          LET c == s.Columns[j]
              v == s.Points[i][j]
          IN  \/ c \in Reserved /\ v.k # "number"
              \/ v.k = "number" /\ v.lit = "bad"
              \/ c \notin Reserved /\ v.k \notin {"string", "number", "bool", "nil"}

ValueErrors == {ErrTime, ErrSequence, ErrNumber, ErrUnknown}

\* C1: a series whose column list names a column twice fails with the
\* duplicate-column error and no series is returned, whatever its rows hold.
C1_DuplicateColumnsRejected ==
    (pc = "converted" /\ NamedTwice(api0.Columns))
        => (ret.err = ErrDuplicate /\ ret.series = NilSeries)

C1_Witness ==
    /\ pc = "converted"
    /\ NamedTwice(api0.Columns)
    /\ \E i \in 1..Len(api0.Points) : WrongLength(api0, i)
    /\ \E i \in 1..Len(api0.Points) : BadValue(api0, i)
    /\ ret.err = ErrDuplicate

\* C2 as stated: unique columns and some row of the wrong length give the
\* shape-mismatch error and no series, whatever the other rows hold.
C2_AnyWrongLengthRowGivesInvalidPayload ==
    (/\ pc = "converted"
     /\ ~NamedTwice(api0.Columns)
     /\ \E i \in 1..Len(api0.Points) : WrongLength(api0, i))
        => (ret.err = ErrPayload /\ ret.series = NilSeries)

\* C2 amended: unique columns and some row of the wrong length make the call
\* fail with no series; the error is the shape-mismatch error when no row
\* before the first wrong-length row holds a rejected value, and otherwise
\* the type, number or unsupported-type error of an earlier row.
C2_FirstFailingRowDecides ==
    \A i \in 1..Len(api0.Points) :
        (/\ pc = "converted"
         /\ ~NamedTwice(api0.Columns)
         /\ WrongLength(api0, i)
         /\ \A h \in 1..(i - 1) : ~WrongLength(api0, h))
            => /\ ret.series = NilSeries
               /\ (\A h \in 1..(i - 1) : ~BadValue(api0, h)) => ret.err = ErrPayload
               /\ (\E h \in 1..(i - 1) : BadValue(api0, h)) => ret.err \in ValueErrors

C2_Witness ==
    /\ pc = "converted"
    /\ ~NamedTwice(api0.Columns)
    /\ Len(api0.Points) = 2
    /\ ~WrongLength(api0, 1) /\ ~BadValue(api0, 1)
    /\ WrongLength(api0, 2)
    /\ Len(api0.Points[2]) > Len(api0.Columns)
    /\ ret.err = ErrPayload /\ ret.series = NilSeries

\* the integer part of a number held in tenths, toward zero
IntegerPart(t) ==
    IF t >= 0 THEN (t - (t % 10)) \div 10
    ELSE -(((-t) - ((-t) % 10)) \div 10)

Scale(p) ==
    CASE p = MicrosecondPrecision -> 1
      [] p = MillisecondPrecision -> 1000
      [] p = SecondPrecision -> 1000000

ColumnAt(cols, name) == CHOOSE j \in 1..Len(cols) : cols[j] = name

FieldColumns(cols) == {j \in 1..Len(cols) : cols[j] \notin Reserved}

\* what C3 says of the timestamp and of the values of point i
C3_TimestampAndValues(i) ==
    LET cols == api0.Columns
        row == api0.Points[i]
        pt == ret.series.Points[i]
    IN  /\ IF "time" \in Range(cols)
           THEN pt.Timestamp =
                    Some(IntegerPart(row[ColumnAt(cols, "time")].n) * Scale(precision))
           ELSE pt.Timestamp = None
        /\ "sequence_number" \notin Range(cols) => pt.SequenceNumber = None
        /\ Len(pt.Values) = Cardinality(FieldColumns(cols))

Converted ==
    /\ pc = "converted"
    /\ ret.err = ""
    /\ Len(ret.series.Points) = Len(api0.Points)

\* C3 as stated: on success the timestamp is the integer part of "time"
\* times the scale, the sequence number equals the "sequence_number" value,
\* both are absent without their column, and neither is among the values.
C3_SequenceNumberEqualsRowValue ==
    (pc = "converted" /\ ret.err = "")
        => /\ Converted
           /\ \A i \in 1..Len(api0.Points) :
                /\ C3_TimestampAndValues(i)
                /\ "sequence_number" \in Range(api0.Columns)
                    => LET v == api0.Points[i][ColumnAt(api0.Columns, "sequence_number")]
                           pt == ret.series.Points[i]
                       IN  pt.SequenceNumber.has /\ pt.SequenceNumber.v * 10 = v.n

\* C3 amended: ... the sequence number equals the integer part of the
\* "sequence_number" value ...
C3_SequenceNumberIsIntegerPart ==
    (pc = "converted" /\ ret.err = "")
        => /\ Converted
           /\ \A i \in 1..Len(api0.Points) :
                /\ C3_TimestampAndValues(i)
                /\ "sequence_number" \in Range(api0.Columns)
                    => LET v == api0.Points[i][ColumnAt(api0.Columns, "sequence_number")]
                           pt == ret.series.Points[i]
                       IN  pt.SequenceNumber = Some(IntegerPart(v.n))

\* columns [time, sequence_number, a], millisecond, row [1000, 5, "x"]
C3_Witness ==
    /\ pc = "converted"
    /\ precision = MillisecondPrecision
    /\ api0.Columns = <<"time", "sequence_number", "a">>
    /\ Len(api0.Points) >= 1
    /\ api0.Points[1] = <<ANumber("int", 10000), ANumber("int", 50), AString("x")>>
    /\ ret.err = ""
    /\ ret.series.Points[1] = Point(<<StringValue("x")>>, Some(1000000), Some(5))

\* C10: the call leaves the series passed in as it was, and converting it
\* again returns what the first call returned.
C10_ConvertLeavesSeriesUnchanged ==
    /\ pc \in {"converted", "reconverted"} => api = api0
    /\ pc = "reconverted" => ret = ret0

(***************************************************************************)
(* Reading the JSON buffer back: the series objects written, each with its *)
(* name, its column names and its rows, a row being the texts between its  *)
(* commas.                                                                 *)
(***************************************************************************)
MinOf(S) == CHOOSE x \in S : \A y \in S : x <= y

SeriesStarts(buf) == {i \in 1..Len(buf) : buf[i] = "{\"name\":\""}

FirstAfter(buf, i, tok) == MinOf({j \in (i + 1)..Len(buf) : buf[j] = tok})

RECURSIVE ReadColumns(_, _)
ReadColumns(toks, i) ==
    IF i > Len(toks) THEN <<>>
    ELSE IF toks[i] = "\"time\"" THEN <<"time">> \o ReadColumns(toks, i + 1)
    ELSE IF toks[i] = ",\"sequence_number\""
         THEN <<"sequence_number">> \o ReadColumns(toks, i + 1)
    ELSE <<toks[i + 1]>> \o ReadColumns(toks, i + 3)

\* rows is the rows read so far, the last one still open when inRow
RECURSIVE ReadRows(_, _, _, _)
ReadRows(toks, i, rows, inRow) ==
    IF i > Len(toks) THEN rows
    ELSE LET tok == toks[i]
             last == Len(rows)
         IN  IF ~inRow
             THEN IF tok = "[" THEN ReadRows(toks, i + 1, Append(rows, <<"">>), TRUE)
                  ELSE ReadRows(toks, i + 1, rows, FALSE)
             ELSE IF tok = "]" THEN ReadRows(toks, i + 1, rows, FALSE)
             ELSE IF tok = ","
                  THEN ReadRows(toks, i + 1,
                                [rows EXCEPT ![last] = Append(@, "")], TRUE)
             ELSE ReadRows(toks, i + 1,
                           [rows EXCEPT ![last][Len(rows[last])] = @ \o tok], TRUE)

ReadSeries(buf, i) ==
    LET c == FirstAfter(buf, i, "],\"points\":[")
        e == FirstAfter(buf, i, "]}")
    IN  [Name |-> buf[i + 1],
         Columns |-> ReadColumns(SubSeq(buf, i + 3, c - 1), 1),
         Points |-> ReadRows(SubSeq(buf, c + 1, e - 1), 1, <<>>, FALSE)]

\* the series objects of the buffer
JsonWritten == {ReadSeries(json.buf, i) : i \in SeriesStarts(json.buf)}

\* the series of the value tree
TreeWritten == Range(serialized.series)

(***************************************************************************)
(* Properties of the serializers (SpecEgress).  In a state with            *)
(* pc = "serialized", serialized is what SerializeSeries returned for      *)
(* memSeries at precision; with pc = "json", json is what                  *)
(* SerializeSeriesJson returned for memSeries, precision, numberOfSeries.  *)
(***************************************************************************)
SequenceOrZero(point) ==
    IF point.SequenceNumber.has THEN point.SequenceNumber.v ELSE 0

\* what C4 says of a written series w (sq(point) being the entry a point's
\* sequence number makes, isSq(e) whether entry e is a sequence number)
C4_DecidedByFirstPoint(w, sq(_), isSq(_)) ==
    LET src == memSeries[w.Name]
    IN  Len(src.Points) > 0 =>
          /\ Len(w.Points) = Len(src.Points)
          /\ IF src.Points[1].SequenceNumber.has
             THEN /\ Len(w.Columns) >= 2 /\ w.Columns[2] = "sequence_number"
                  /\ \A r \in 1..Len(w.Points) :
                        /\ Len(w.Points[r]) = 2 + Len(src.Points[r].Values)
                        /\ w.Points[r][2] = sq(src.Points[r])
             ELSE /\ "sequence_number" \notin Range(w.Columns)
                  /\ \A r \in 1..Len(w.Points) :
                        /\ Len(w.Points[r]) = 1 + Len(src.Points[r].Values)
                        /\ \A j \in 1..Len(w.Points[r]) : ~isSq(w.Points[r][j])
          /\ \A r \in 1..Len(w.Points) :
                Len(src.Points[r].Values) = Len(src.Fields)
                    => Len(w.Points[r]) = Len(w.Columns)

IsUint64(e) == e.k = "uint64"
NeverSq(e) == FALSE
TreeSq(point) == AUint64(SequenceOrZero(point))
TextSq(point) == ToString(SequenceOrZero(point))

\* C4: both serializers decide from the first point whether a series has a
\* sequence_number column and keep to it in every row: 0 stands for a point
\* without one, and no row gets an entry when the first point has none.
C4_SequenceColumnDecidedOnce ==
    /\ pc = "serialized" => \A w \in TreeWritten : C4_DecidedByFirstPoint(w, TreeSq, IsUint64)
    /\ pc = "json" => \A w \in JsonWritten : C4_DecidedByFirstPoint(w, TextSq, NeverSq)

C4_Witness ==
    /\ pc = "json"
    /\ \E w \in JsonWritten :
          LET src == memSeries[w.Name]
          IN  /\ Len(src.Points) = 2
              /\ src.Points[1].SequenceNumber.has
              /\ ~src.Points[2].SequenceNumber.has
              /\ Len(src.Points[2].Values) = Len(src.Fields)
              /\ w.Columns[2] = "sequence_number"
              /\ w.Points[2][2] = "0"
              /\ Len(w.Points[2]) = Len(w.Columns)

IsNonFinite(value) == value.k = "double" /\ ~value.fin

\* the non-finite values of the series named in names
NonFiniteIn(names) ==
    {<<n, r, j>> \in UNION {UNION {{<<n, r, j>> : j \in 1..Len(memSeries[n].Points[r].Values)}
                                   : r \in 1..Len(memSeries[n].Points)}
                            : n \in names} :
        IsNonFinite(memSeries[n].Points[r].Values[j])}

\* the entry of value j of row r of the written series w
ValueEntry(w, r, j) ==
    LET row == w.Points[r]
        src == memSeries[w.Name]
    IN  row[Len(row) - Len(src.Points[r].Values) + j]

\* C6: both serializers write null where a point holds a non-finite float,
\* and one call logs as many warnings as it serialized non-finite values.
C6_NonFiniteIsNullWithOneWarning ==
    /\ pc = "serialized" =>
          /\ serialized.warns = Cardinality(NonFiniteIn({w.Name : w \in TreeWritten}))
          /\ \A w \in TreeWritten :
                \A t \in NonFiniteIn({w.Name}) : ValueEntry(w, t[2], t[3]) = ANil
    /\ pc = "json" =>
          /\ json.warns = Cardinality(NonFiniteIn({w.Name : w \in JsonWritten}))
          /\ \A w \in JsonWritten :
                \A t \in NonFiniteIn({w.Name}) : ValueEntry(w, t[2], t[3]) = "null"

\* two non-finite values in the map, one of them in a series the capped call
\* did not reach
C6_Witness ==
    /\ pc = "json"
    /\ Cardinality(NonFiniteIn(DOMAIN memSeries)) = 2
    /\ Cardinality(NonFiniteIn({w.Name : w \in JsonWritten})) = 1
    /\ json.warns = 1
    /\ \E w \in JsonWritten :
          \E t \in NonFiniteIn({w.Name}) : ValueEntry(w, t[2], t[3]) = "null"

Wrapped(buf) ==
    /\ Len(buf) >= 2
    /\ buf[1] = "["
    /\ buf[Len(buf)] = "]"

\* C7: with numberOfSeries = 1 and a map that is not empty the buffer is one
\* series object without the enclosing brackets; with any other value it
\* begins with "[" and ends with "]".
C7_OneUnwrappedObject ==
    pc = "json" =>
        IF numberOfSeries = 1
        THEN DOMAIN memSeries # {} =>
                /\ Cardinality(SeriesStarts(json.buf)) = 1
                /\ json.buf[1] = "{\"name\":\""
                /\ json.buf[Len(json.buf)] = "]}"
        ELSE Wrapped(json.buf)

ExpectedWritten(m, n) ==
    IF n = 0 THEN m ELSE IF m < n + 1 THEN m ELSE n + 1

\* C8: numberOfSeries = 0 writes every series of the map, numberOfSeries =
\* N > 0 writes min(M, N + 1) of them, each after the first following the
\* one before it after exactly one comma.
C8_WritesCapPlusOne ==
    pc = "json" =>
        LET starts == SeriesStarts(json.buf)
        IN  /\ Cardinality(starts)
                  = ExpectedWritten(Cardinality(DOMAIN memSeries), numberOfSeries)
            /\ Cardinality(JsonWritten) = Cardinality(starts)
            /\ \A i \in starts :
                  IF i = MinOf(starts)
                  THEN i = 1 \/ (i = 2 /\ json.buf[1] = "[")
                  ELSE json.buf[i - 1] = "," /\ json.buf[i - 2] = "]}"

C8_Witness ==
    /\ pc = "json"
    /\ Cardinality(DOMAIN memSeries) = 3
    /\ numberOfSeries = 1
    /\ Cardinality(SeriesStarts(json.buf)) = 2

\* the text of a scalar of the value tree
ScalarText(v) ==
    CASE v.k \in {"int64", "uint64"} -> ToString(v.n)
      [] v.k = "float64" -> FormatFloat(v.n)
      [] v.k = "string" -> "\"" \o v.s \o "\""
      [] v.k = "bool" -> IF v.b THEN "true" ELSE "false"
      [] OTHER -> "null"

\* C9: with numberOfSeries = 0, every series in the buffer has the columns
\* SerializeSeries gives it, and every row the scalars SerializeSeries gives
\* it, with null exactly where SerializeSeries has nil.
C9_FastPathMirrorsGenericPath ==
    (pc = "json" /\ numberOfSeries = 0) =>
        /\ {w.Name : w \in JsonWritten} = DOMAIN memSeries
        /\ \A w \in JsonWritten :
              LET g == SerializeOne(memSeries[w.Name], precision)
              IN  /\ w.Columns = g.Columns
                  /\ Len(w.Points) = Len(g.Points)
                  /\ \A r \in 1..Len(g.Points) :
                        /\ Len(w.Points[r]) = Len(g.Points[r])
                        /\ \A j \in 1..Len(g.Points[r]) :
                              /\ w.Points[r][j] = ScalarText(g.Points[r][j])
                              /\ w.Points[r][j] = "null" <=> g.Points[r][j] = ANil

(***************************************************************************)
(* Properties of the round trip (SpecRound).  In a state with              *)
(* pc = "direct" or "reingested", memSeries holds the one stored series,   *)
(* api0 the series passed to ConvertToDataStoreSeries and ret its return.  *)
(***************************************************************************)
TimestampOrZero(point) == IF point.Timestamp.has THEN point.Timestamp.v ELSE 0

\* n is o cut toward zero to a multiple of scale
Truncated(o, n, scale) ==
    /\ n % scale = 0
    /\ o >= 0 => (n >= 0 /\ n <= o /\ o - n < scale)
    /\ o <= 0 => (n <= 0 /\ n >= o /\ n - o < scale)

\* what C5 says of the series src and the series back that came back for it
C5_SameFieldsAndTimestamps(src, back) ==
    /\ back.Fields = src.Fields
    /\ Len(back.Points) = Len(src.Points)
    /\ \A r \in 1..Len(src.Points) :
          /\ back.Points[r].Timestamp.has
          /\ Truncated(TimestampOrZero(src.Points[r]),
                       back.Points[r].Timestamp.v, Scale(precision))
          /\ precision = MicrosecondPrecision
                => back.Points[r].Timestamp.v = TimestampOrZero(src.Points[r])
    /\ \A r1, r2 \in 1..Len(src.Points) :
          TimestampOrZero(src.Points[r1]) <= TimestampOrZero(src.Points[r2])
              => back.Points[r1].Timestamp.v <= back.Points[r2].Timestamp.v

\* C5 as stated: the series SerializeSeries returns, converted by
\* ConvertToDataStoreSeries at the same precision, has the fields of the
\* stored series and its timestamps cut to the precision, in the same order.
C5_RoundTripOfSerializedSeries ==
    pc = "direct" =>
        /\ ret.err = ""
        /\ C5_SameFieldsAndTimestamps(memSeries[api0.Name], ret.series)

\* C5 amended: the same of the series SerializeSeries returns once it has
\* been encoded as JSON and decoded with its numbers as json.Number.
C5_RoundTripThroughJson ==
    pc = "reingested" =>
        /\ ret.err = ""
        /\ C5_SameFieldsAndTimestamps(memSeries[api0.Name], ret.series)

C5_Witness ==
    /\ pc = "reingested"
    /\ precision = MillisecondPrecision
    /\ ret.err = ""
    /\ ret.series.Fields = <<"b", "a">>
    /\ Len(ret.series.Points) = 2
    /\ memSeries["s1"].Points[1].Timestamp = Some(-1500)
    /\ ret.series.Points[1].Timestamp = Some(-1000)
    /\ memSeries["s1"].Points[2].Timestamp = Some(1999)
    /\ ret.series.Points[2].Timestamp = Some(1000)

(***************************************************************************)
(* The shape of a converted series (SpecIngest).                           *)
(***************************************************************************)
\* the names of cols that are not reserved, in the order of cols
RECURSIVE WithoutReserved(_)
WithoutReserved(cols) ==
    IF cols = <<>> THEN <<>>
    ELSE (IF Head(cols) \in Reserved THEN <<>> ELSE <<Head(cols)>>)
         \o WithoutReserved(Tail(cols))

\* the field value v is the row entry e
IsEntry(v, e) ==
    CASE e.k = "string" -> v.k = "string" /\ v.s = e.s
      [] e.k = "number" /\ e.lit = "int" -> v.k = "int64" /\ v.n * 10 = e.n
      [] e.k = "number" /\ e.lit = "dec" -> v.k = "double" /\ v.fin /\ v.n = e.n
      [] e.k = "bool" -> v.k = "bool" /\ v.b = e.b
      [] e.k = "nil" -> v.k = "isnull"
      [] OTHER -> FALSE

\* C11: a series returned by a successful call has as fields the columns
\* without "time" and "sequence_number", in the order of the columns and
\* none twice, and every point has one value per field, the i-th being the
\* row's entry under the column of the i-th field.
C11_FieldsAndValuesFollowColumns ==
    (pc = "converted" /\ ret.err = "") =>
        LET cols == api0.Columns
            fields == ret.series.Fields
        IN  /\ fields = WithoutReserved(cols)
            /\ ~NamedTwice(fields)
            /\ Len(ret.series.Points) = Len(api0.Points)
            /\ \A r \in 1..Len(api0.Points) :
                  /\ Len(ret.series.Points[r].Values) = Len(fields)
                  /\ \A i \in 1..Len(fields) :
                        IsEntry(ret.series.Points[r].Values[i],
                                api0.Points[r][ColumnAt(cols, fields[i])])

C11_Witness ==
    /\ pc = "converted"
    /\ ret.err = ""
    /\ api0.Columns = <<"b", "time", "a">>
    /\ ret.series.Fields = <<"b", "a">>
    /\ Len(ret.series.Points) = 2
    /\ ret.series.Points[1].Values = <<BoolValue(TRUE), DoubleValue(25)>>
    /\ ret.series.Points[2].Values = <<IsNull, Int64Value(7)>>

(***************************************************************************)
(* Series whose points do not match their fields (SpecEgress).             *)
(***************************************************************************)
ReservedColumns(w) == Cardinality({j \in 1..Len(w.Columns) : w.Columns[j] \in Reserved})

\* every row of the written series w has as many field entries as w has
\* field columns
RowsMatchColumns(w) ==
    \A r \in 1..Len(w.Points) :
        Len(w.Points[r]) - ReservedColumns(w) = Len(w.Columns) - ReservedColumns(w)

\* C12: neither serializer returns output that holds a row whose number of
\* field entries differs from the number of field columns (a series with
\* such a point stops the call instead).
C12_NoRowOffItsColumns ==
    /\ pc = "serialized" => \A w \in TreeWritten : RowsMatchColumns(w)
    /\ pc = "json" => \A w \in JsonWritten : RowsMatchColumns(w)

====
